---- MODULE Spec2Model ----
(***************************************************************************)
(* Scenario lifecycle and audit engine of Pacemaker's Cluster Test Suite   *)
(* (python/pacemaker/_cts/scenarios.py).                                   *)
(*                                                                         *)
(* The program is single threaded.  Its state is the Scenario object, the  *)
(* call stack of Scenario methods in progress (one frame per call, with    *)
(* the frame's position and locals) and the history of the calls made to   *)
(* the collaborators (components, tests, profiler).  One action models one *)
(* straight-line segment of a method, from a position up to the next call  *)
(* of another Scenario method, a return or a raise.                        *)
(***************************************************************************)
EXTENDS Integers, Sequences, FiniteSets, TLC

\* ---------------------------------------------------------------- bounds
MaxComp == 2        \* longest component list
MaxTests == 2       \* longest registered test list
MaxIter == 2        \* largest Iterations argument of run()
MaxNoisy == 2       \* audit() calls of one run that find unignored lines
MaxTime == 2        \* longest span of one run_test call, in clock ticks

\* ------------------------------------------------------ program constants
RunawayBound == 1000    \* while errcount < 1000

None == -1              \* Python's None, where an int is expected

VARIABLES
    components,      \* len(self._components)
    tests,           \* self.tests: the registered tests, <<1, ..., L>>
    strategy,        \* the Scenario subclass: which run_loop is bound
    Iterations,      \* the argument of run()
    continueOnError, \* Env["continue"], read by should_continue()
    faulty,          \* the components whose teardown() returns False
    audits,          \* len(self._audits)
    ignores,         \* the lists errorstoignore() and instance_errorstoignore()
                     \* of the cluster manager can return
    clock,           \* the clock readings one run_test call can get
    feeds,           \* what the log of this run can hand to one audit() call
    stats,           \* self.stats
    bad_news,        \* self._bad_news: FALSE while None, TRUE once armed
    stack,           \* call stack of Scenario methods, innermost last
    exc,             \* TRUE while a ValueError propagates up the stack
    retval,          \* value returned by the last call that returned
    driver,          \* position of the caller of the Scenario
    csetup,          \* indices of the components whose setup() was called
    cteardown,       \* indices of the components whose teardown() was called
    runs,            \* <<test, testcount>> of every run_test invocation
    nTeardown,       \* invocations of Scenario.teardown
    nSummarize,      \* invocations of Scenario.summarize
    nNoisy,          \* audit() calls that found an unignored line
    profiler,        \* [start, stop]: calls of oprofileStart / oprofileStop
    supportInstalled, \* install_support() / install_support("uninstall")
    teststats,       \* test.stats of each test: the timing entries
    timings          \* the clock readings of each test's run_test calls

vars == <<components, tests, strategy, Iterations, continueOnError,
          faulty, audits, ignores, feeds, clock,
          stats, bad_news, stack, exc, retval, driver, csetup, cteardown,
          runs, nTeardown, nSummarize, nNoisy, profiler,
          supportInstalled, teststats, timings>>

config == <<components, tests, strategy, Iterations, continueOnError,
            faulty, audits, ignores, feeds, clock>>
timing == <<teststats, timings>>
history == <<csetup, cteardown, runs, nTeardown, nSummarize, nNoisy, profiler>>

Strategies == {"AllOnce", "RandomTests", "Sequence", "Boot"}

\* ------------------------------------------------------------ call stack
Frame0 ==
    [fn |-> "", pc |-> "", n |-> None, j |-> 0, torn |-> <<>>,
     test |-> 0, testcount |-> 0, i |-> 0,
     ret |-> TRUE, did_run |-> FALSE, calls |-> <<>>,
     outcome |-> [setup |-> TRUE, can_run_now |-> TRUE, body |-> TRUE],
     teardownOk |-> TRUE,
     success0 |-> 0, failure0 |-> 0,
     local_ignore |-> <<>>, errcount |-> 0, failed |-> 0,
     runaway |-> FALSE, teardown0 |-> 0, summarize0 |-> 0]

Top == stack[Len(stack)]
Rest == SubSeq(stack, 1, Len(stack) - 1)
Running(f, p) == ~exc /\ Len(stack) > 0 /\ Top.fn = f /\ Top.pc = p

\* the caller moves to `caller` and the callee's frame is pushed
Call(caller, callee) == Rest \o <<caller, callee>>
Goto(frame) == Rest \o <<frame>>

\* as incr, setting the counter to 1 whether the key is there or not
incr_set(st, name) ==
    [k \in DOMAIN st \cup {name} |-> IF k = name THEN 1 ELSE st[k]]

\* src: Scenario.incr
incr(st, name) ==
    IF name \in DOMAIN st
    THEN [st EXCEPT ![name] = @ + 1]
    ELSE [k \in DOMAIN st \cup {name} |-> IF k = name THEN 1 ELSE st[k]]

\* nothing was returned by the step before this one.  A value returned
\* carries the frame that returned it and, from audit(), what the call was
\* given: the results of the registered audits, the lines of the LogWatcher,
\* the three ignore lists, and "BadNews" and the count of teardowns at entry.
NoValue ==
    [fn |-> "", val |-> FALSE, frame |-> Frame0, results |-> <<>>,
     feed |-> <<>>, local_ignore |-> <<>>, errorstoignore |-> <<>>,
     instance_errorstoignore |-> <<>>, BadNews0 |-> 0, teardown0 |-> 0]
Returned(fn, val) == [NoValue EXCEPT !.fn = fn, !.val = val, !.frame = Top]

\* src: should_continue(self._cm.Env)
should_continue == continueOnError

\* what the LogWatcher can return from look(0), and the patterns of the
\* ignore lists; re.search(pattern, line) as a table over them
Lines == {"CTS: starting", "noise", "ERROR: disk full"}
Search(pattern, line) ==
    <<pattern, line>> \in {<<"CTS:", "CTS: starting">>, <<"noise", "noise">>}
IgnoreLists == {<<>>, <<"noise">>}

\* what one audit() call gets from the LogWatcher before look(0) returns
\* None: a sequence of runs of equal lines, each [line, count].  The feeds
\* covered are the empty one and those of one run.
Counts == {1, RunawayBound}
Feeds == {<<>>} \cup {<<run>> : run \in [line : Lines, count : Counts]}
\* those of them with no line of the framework's own, and with a long run
\* only of lines that nothing matches
FeedsPlain ==
    {feed \in Feeds : \A k \in DOMAIN feed :
        /\ feed[k].line # "CTS: starting"
        /\ feed[k].count = RunawayBound => feed[k].line = "ERROR: disk full"}
\* the count of a run that does not end: look(0) returns its line for ever
Endless == -2
\* the feeds of one run, ending or not
FeedsEndless ==
    Feeds \cup {<<[line |-> line, count |-> Endless]>> : line \in Lines}
\* the feeds of at most two runs, the second of other lines than the first
Feeds2 ==
    Feeds \cup {feed \in [1..2 -> [line : Lines, count : Counts]] :
                  feed[1].line # feed[2].line}

\* test.stats of a test that has not been through line 189
NoStats == [k \in {} |-> 0]

\* a Scenario just constructed (53-63), its caller about to call setup()
Start ==
    /\ continueOnError \in BOOLEAN
    /\ stats = [success |-> 0, failure |-> 0, BadNews |-> 0, skipped |-> 0]
    /\ bad_news = FALSE
    /\ stack = <<>>
    /\ exc = FALSE
    /\ retval = NoValue
    /\ driver = "init"
    /\ csetup = <<>>
    /\ cteardown = <<>>
    /\ runs = <<>>
    /\ nTeardown = 0
    /\ nSummarize = 0
    /\ nNoisy = 0
    /\ profiler = [start |-> 0, stop |-> 0]
    /\ supportInstalled = FALSE
    /\ teststats = [t \in DOMAIN tests |-> NoStats]
    /\ timings = [t \in DOMAIN tests |-> <<>>]

\* The scenarios covered: Boot scenarios (no test is run) over every
\* component list, and the three test-running strategies over every test
\* list and Iterations with one component.  No audit is registered (no
\* caller of audit() reads what it returns), the cluster manager has nothing
\* to ignore and the log hands an audit() call at most one run of lines;
\* InitAudit below varies the three.
Init ==
    /\ \/ /\ strategy = "Boot"
          /\ components \in 1..MaxComp
          /\ tests = <<1>>
          /\ Iterations = 0
          /\ faulty \in SUBSET (0..(components - 1))
       \/ /\ strategy \in Strategies \ {"Boot"}
          /\ components = 1
          /\ tests \in {[k \in 1..L |-> k] : L \in 1..MaxTests}
          /\ Iterations \in 0..MaxIter
          /\ faulty = {}
    /\ audits = 0
    /\ ignores = {<<>>}
    /\ feeds = FeedsPlain
    /\ clock = {[starttime |-> 0, timer |-> 0, stoptime |-> 1]}
    /\ Start

\* ------------------------------------------------- Scenario.setup (89-117)
SetupFrame == [Frame0 EXCEPT !.fn = "setup", !.pc = "l92"]
TeardownFrame(n_components) ==
    [Frame0 EXCEPT !.fn = "teardown", !.pc = "l123", !.n = n_components]
AuditFrame(local_ignore) ==
    [Frame0 EXCEPT !.fn = "audit", !.pc = "l238", !.local_ignore = local_ignore]

\* 92-93: prepare the cluster manager, first audit (no LogWatcher yet)
setup_l92 ==
    /\ Running("setup", "l92")
    /\ stack' = Call([Top EXCEPT !.pc = "l94"], AuditFrame(<<>>))
    /\ retval' = NoValue
    /\ UNCHANGED <<config, timing, history, stats, bad_news, exc, driver,
                   supportInstalled>>

\* 94-96: wait for the nodes, second audit
setup_l94 ==
    /\ Running("setup", "l94")
    /\ stack' = Call([Top EXCEPT !.pc = "l97"], AuditFrame(<<>>))
    /\ retval' = NoValue
    /\ UNCHANGED <<config, timing, history, stats, bad_news, exc, driver,
                   supportInstalled>>

\* 97-106: install support, build and arm the LogWatcher, j = 0
setup_l97 ==
    /\ Running("setup", "l97")
    /\ supportInstalled' = TRUE
    /\ bad_news' = TRUE
    /\ stack' = Goto([Top EXCEPT !.pc = "l107", !.j = 0])
    /\ retval' = NoValue
    /\ UNCHANGED <<config, timing, history, stats, exc, driver>>

\* the argument setup() passes to teardown() when component j failed (112)
PartialTeardownArg(j) == j

\* 107-116: one turn of the while loop, or the audit after it
setup_l107 ==
    /\ Running("setup", "l107")
    /\ IF Top.j < components
       THEN \E ok \in BOOLEAN :
              /\ csetup' = Append(csetup, Top.j)
              /\ IF ok
                 THEN stack' = Goto([Top EXCEPT !.j = @ + 1])
                 ELSE stack' = Call([Top EXCEPT !.pc = "l111"], AuditFrame(<<>>))
       ELSE /\ stack' = Call([Top EXCEPT !.pc = "l117"], AuditFrame(<<>>))
            /\ UNCHANGED csetup
    /\ retval' = NoValue
    /\ UNCHANGED <<config, timing, stats, bad_news, exc, driver, cteardown,
                   runs, nTeardown, nSummarize, nNoisy, profiler,
                   supportInstalled>>

\* 111-112: tear the partial setup down
setup_l111 ==
    /\ Running("setup", "l111")
    /\ stack' = Call([Top EXCEPT !.pc = "l113"],
                     TeardownFrame(PartialTeardownArg(Top.j)))
    /\ retval' = NoValue
    /\ UNCHANGED <<config, timing, history, stats, bad_news, exc, driver,
                   supportInstalled>>

\* 113: return False
setup_l113 ==
    /\ Running("setup", "l113")
    /\ stack' = Rest
    /\ retval' = Returned("setup", FALSE)
    /\ UNCHANGED <<config, timing, history, stats, bad_news, exc, driver,
                   supportInstalled>>

\* 117: return True
setup_l117 ==
    /\ Running("setup", "l117")
    /\ stack' = Rest
    /\ retval' = Returned("setup", TRUE)
    /\ UNCHANGED <<config, timing, history, stats, bad_news, exc, driver,
                   supportInstalled>>

\* ---------------------------------------------- Scenario.teardown (119-133)
\* 123-124: "if not n_components": None and 0 are both falsy
FirstTornDown(n_components, len) ==
    IF n_components = None \/ n_components = 0 THEN len - 1 ELSE n_components

\* as AfterComponent, with a failed component ending the loop
AfterComponent_stops(j, ok) == IF ok THEN j - 1 ELSE -1

\* 129-130: j after a turn of the loop; the result of the component's
\* teardown() is not used
AfterComponent(j, ok) == j - 1

\* 123-126
teardown_l123 ==
    /\ Running("teardown", "l123")
    /\ nTeardown' = nTeardown + 1
    /\ stack' = Goto([Top EXCEPT !.pc = "l128",
                                 !.j = FirstTornDown(Top.n, components)])
    /\ retval' = NoValue
    /\ UNCHANGED <<config, timing, stats, bad_news, exc, driver, csetup,
                   cteardown, runs, nSummarize, nNoisy, profiler,
                   supportInstalled>>

\* 128-132: one turn of the while loop (the component's result is not
\* looked at), or the audit after it
teardown_l128 ==
    /\ Running("teardown", "l128")
    /\ IF Top.j >= 0
       THEN /\ cteardown' = Append(cteardown, Top.j)
            /\ stack' = Goto([Top EXCEPT
                            !.j = AfterComponent(@, Top.j \notin faulty),
                            !.torn = Append(@, Top.j)])
       ELSE /\ stack' = Call([Top EXCEPT !.pc = "l133"], AuditFrame(<<>>))
            /\ UNCHANGED cteardown
    /\ retval' = NoValue
    /\ UNCHANGED <<config, timing, stats, bad_news, exc, driver, csetup,
                   runs, nTeardown, nSummarize, nNoisy, profiler,
                   supportInstalled>>

\* 133: uninstall support, return
teardown_l133 ==
    /\ Running("teardown", "l133")
    /\ supportInstalled' = FALSE
    /\ stack' = Rest
    /\ retval' = Returned("teardown", FALSE)
    /\ UNCHANGED <<config, timing, history, stats, bad_news, exc, driver>>

\* ------------------------------------------------- Scenario.audit (237-283)
\* as IgnoreList, without line 246
IgnoreList_short(local_ignore, errorstoignore, instance_errorstoignore) ==
    <<"CTS:">> \o local_ignore \o errorstoignore

\* 240-246
IgnoreList(local_ignore, errorstoignore, instance_errorstoignore) ==
    <<"CTS:">> \o local_ignore \o errorstoignore \o instance_errorstoignore

\* 263-266: add_err after the for loop over ignorelist
RECURSIVE AddErr(_, _, _)
AddErr(ignorelist, match, add_err) ==
    IF ignorelist = <<>> THEN add_err
    ELSE AddErr(Tail(ignorelist), match,
                IF add_err /\ Search(Head(ignorelist), match) THEN FALSE ELSE add_err)

\* self._audits, by position in the list
Audits == 1..audits

\* as Failed, counting the audits that passed
Failed_passed(results) == Cardinality({a \in DOMAIN results : results[a]})

\* 249-255: failed, from what each registered audit returned
Failed(results) == Cardinality({a \in DOMAIN results : ~results[a]})

\* 257-272: errcount when the while loop ends, either by break (the feed is
\* used up: look(0) returns None) or because errcount reached the bound.  A
\* run of equal lines is taken in one step: as many of them as the loop
\* condition lets through.
RECURSIVE Drain(_, _, _)
Drain(feed, errcount, ignorelist) ==
    IF ~(errcount < RunawayBound) THEN errcount
    ELSE IF feed = <<>> THEN errcount
    ELSE LET run == Head(feed)
             taken == IF run.count # Endless /\ run.count < RunawayBound - errcount
                      THEN run.count ELSE RunawayBound - errcount
         IN  IF AddErr(ignorelist, run.line, TRUE)
             THEN Drain(Tail(feed), errcount + taken, ignorelist)
             ELSE IF run.count = Endless THEN errcount
             ELSE Drain(Tail(feed), errcount, ignorelist)

\* 257-272: the loop gets, with errcount still under the bound, to a run that
\* does not end and whose line the ignore list matches: lines 259-266 are
\* then repeated with errcount as it is, and neither the break of line 272
\* nor the end of the loop at line 257 is reached
RECURSIVE Spins(_, _, _)
Spins(feed, errcount, ignorelist) ==
    IF ~(errcount < RunawayBound) THEN FALSE
    ELSE IF feed = <<>> THEN FALSE
    ELSE LET run == Head(feed)
             taken == IF run.count # Endless /\ run.count < RunawayBound - errcount
                      THEN run.count ELSE RunawayBound - errcount
         IN  IF AddErr(ignorelist, run.line, TRUE)
             THEN Spins(Tail(feed), errcount + taken, ignorelist)
             ELSE IF run.count = Endless THEN TRUE
             ELSE Spins(Tail(feed), errcount, ignorelist)

\* 257/273: the else branch of the while loop runs when the condition fails
Runaway(errcount) == ~(errcount < RunawayBound)

\* 269: self.incr("BadNews"), k times
incr_times(st, name, k) ==
    IF k = 0 THEN st ELSE [incr(st, name) EXCEPT ![name] = @ + (k - 1)]

\* 238-283 up to the return, or up to the call of teardown() at 278, or
\* into the loop of line 257 when it is not left: the call then stays at
\* "l257", and the turns of the loop change nothing
audit_l238 ==
    /\ Running("audit", "l238")
    /\ \E results \in [Audits -> BOOLEAN],
          feed \in IF bad_news /\ nNoisy < MaxNoisy THEN feeds ELSE {<<>>},
          errorstoignore \in ignores, instance_errorstoignore \in ignores :
         LET ignorelist == IgnoreList(Top.local_ignore, errorstoignore,
                                      instance_errorstoignore)
             failed == Failed(results)
             errcount == IF bad_news THEN Drain(feed, 0, ignorelist) ELSE 0
         IN  /\ nNoisy' = IF errcount = 0 THEN nNoisy ELSE nNoisy + 1
             /\ stats' = incr_times(stats, "BadNews", errcount)
             /\ IF bad_news /\ Spins(feed, 0, ignorelist)
                THEN /\ stack' = Goto([Top EXCEPT !.pc = "l257",
                                                  !.errcount = errcount,
                                                  !.failed = failed])
                     /\ retval' = NoValue
                     /\ UNCHANGED nSummarize
                ELSE IF Runaway(errcount) /\ ~should_continue
                THEN /\ nSummarize' = nSummarize + 1
                     /\ stack' = Call([Top EXCEPT !.pc = "l279",
                                                  !.runaway = TRUE,
                                                  !.errcount = errcount,
                                                  !.failed = failed,
                                                  !.teardown0 = nTeardown,
                                                  !.summarize0 = nSummarize],
                                      TeardownFrame(None))
                     /\ retval' = NoValue
                ELSE /\ stack' = Rest
                     /\ retval' = [Returned("audit", failed) EXCEPT
                                    !.results = results,
                                    !.feed = feed,
                                    !.local_ignore = Top.local_ignore,
                                    !.errorstoignore = errorstoignore,
                                    !.instance_errorstoignore =
                                        instance_errorstoignore,
                                    !.BadNews0 = stats["BadNews"],
                                    !.teardown0 = nTeardown]
                     /\ UNCHANGED nSummarize
    /\ UNCHANGED <<config, timing, bad_news, exc, driver, csetup, cteardown, runs,
                   nTeardown, profiler, supportInstalled>>

\* 279: raise ValueError("Looks like we hit a BadNews jackpot!")
audit_l279 ==
    /\ Running("audit", "l279")
    /\ exc' = TRUE
    /\ retval' = NoValue
    /\ UNCHANGED <<config, timing, history, stats, bad_news, stack, driver,
                   supportInstalled>>

\* --------------------------------------------- Scenario.run_test (153-209)
RunTestFrame(test, testcount) ==
    [Frame0 EXCEPT !.fn = "run_test", !.pc = "l154", !.test = test,
                   !.testcount = testcount]

\* 156-174: ret, did_run and the calls made on the test, from what
\* test.setup, test.can_run_now and the test body return
TestFlow(setupOk, canRun, bodyOk) ==
    IF ~setupOk
    THEN [ret |-> FALSE, did_run |-> FALSE, calls |-> <<"setup">>]
    ELSE IF ~canRun
    THEN [ret |-> TRUE, did_run |-> FALSE,
          calls |-> <<"setup", "can_run_now", "skipped">>]
    ELSE [ret |-> bodyOk, did_run |-> TRUE,
          calls |-> <<"setup", "can_run_now", "body">>]

\* what the test's methods return in one run_test call; a method that is
\* not called returns nothing, written TRUE
TestOutcomes ==
    {[setup |-> FALSE, can_run_now |-> TRUE, body |-> TRUE],
     [setup |-> TRUE, can_run_now |-> FALSE, body |-> TRUE],
     [setup |-> TRUE, can_run_now |-> TRUE, body |-> FALSE],
     [setup |-> TRUE, can_run_now |-> TRUE, body |-> TRUE]}

\* test.errors_to_ignore, a fixed list of each test
errors_to_ignore(test) == IF test = 1 THEN <<"noise">> ELSE <<>>

\* as AfterTeardown, without line 182
AfterTeardown_kept(ret, teardownOk) == ret

\* 176-182: ret after test.teardown returned teardownOk (and did not raise)
AfterTeardown(ret, teardownOk) == IF ~teardownOk THEN FALSE ELSE ret

\* as TeardownFatal, but unwinding through a full Scenario teardown first
TeardownFatal_unwinds(frame) ==
    <<[frame EXCEPT !.pc = "l180"], TeardownFrame(None)>>

\* 179-180: the frames on top of the stack once the teardown failure is fatal
TeardownFatal(frame) == <<[frame EXCEPT !.pc = "l180"]>>

\* as Bookkeeping, without line 206
Bookkeeping_unforced(st, ret, did_run) ==
    IF ret
    THEN [stats |-> incr(st, "success"), did_run |-> did_run]
    ELSE [stats |-> incr(st, "failure"), did_run |-> did_run]

\* 200-206: self.stats and did_run after the bookkeeping
Bookkeeping(st, ret, did_run) ==
    IF ret
    THEN [stats |-> incr(st, "success"), did_run |-> did_run]
    ELSE [stats |-> incr(st, "failure"), did_run |-> TRUE]

\* what the clock gives one run_test call: starttime (163), the value of
\* test.get_timer() at line 188 and stoptime (184).  The test's timer is set
\* at line 163 and may be set again by the test, never later than stoptime.
Clock(max) ==
    {r \in [starttime : {0}, timer : 0..max, stoptime : 0..max] :
        r.timer <= r.stoptime}

\* 187, 188
elapsed_time(reading) == reading.stoptime - reading.starttime
test_time(reading) == reading.stoptime - reading.timer

\* as TimeStats, with the first max_time kept
TimeStats_firstmax(st, elapsed, test) ==
    IF "min_time" \notin DOMAIN st
    THEN [k \in {"elapsed_time", "min_time", "max_time"} |->
             IF k = "elapsed_time" THEN elapsed ELSE test]
    ELSE [st EXCEPT !["elapsed_time"] = @ + elapsed,
                    !["min_time"] = IF test < @ THEN test ELSE @]

\* 189-198: test.stats after the timing bookkeeping
TimeStats(st, elapsed, test) ==
    IF "min_time" \notin DOMAIN st
    THEN [k \in DOMAIN st \cup {"elapsed_time", "min_time", "max_time"} |->
             IF k = "elapsed_time" THEN elapsed
             ELSE IF k \in {"min_time", "max_time"} THEN test ELSE st[k]]
    ELSE [st EXCEPT !["elapsed_time"] = @ + elapsed,
                    !["min_time"] = IF test < @ THEN test ELSE @,
                    !["max_time"] = IF test > @ THEN test ELSE @]

\* 154-208: up to the call of audit() at 208, or up to the raise at 180
run_test_l154 ==
    /\ Running("run_test", "l154")
    /\ runs' = Append(runs, <<Top.test, Top.testcount>>)
    /\ \E outcome \in TestOutcomes, teardownOk \in BOOLEAN, reading \in clock :
         LET flow == TestFlow(outcome.setup, outcome.can_run_now, outcome.body)
             ret == AfterTeardown(flow.ret, teardownOk)
             book == Bookkeeping(stats, ret, flow.did_run)
             frame == [Top EXCEPT !.calls = Append(flow.calls, "teardown"),
                                  !.outcome = outcome,
                                  !.teardownOk = teardownOk,
                                  !.teardown0 = nTeardown,
                                  !.success0 = stats["success"],
                                  !.failure0 = stats["failure"],
                                  !.ret = flow.ret,
                                  !.did_run = flow.did_run]
         IN  IF ~teardownOk /\ ~should_continue
             THEN /\ stack' = Rest \o TeardownFatal(frame)
                  /\ UNCHANGED <<stats, timing>>
             ELSE /\ stack' = Call([frame EXCEPT !.pc = "l209",
                                                 !.ret = ret,
                                                 !.did_run = book.did_run],
                                   AuditFrame(errors_to_ignore(Top.test)))
                  /\ stats' = book.stats
                  /\ teststats' =
                       [teststats EXCEPT ![Top.test] =
                           TimeStats(@, elapsed_time(reading),
                                     test_time(reading))]
                  /\ timings' =
                       [timings EXCEPT ![Top.test] = Append(@, reading)]
    /\ retval' = NoValue
    /\ UNCHANGED <<config, bad_news, exc, driver, csetup, cteardown,
                   nTeardown, nSummarize, nNoisy, profiler,
                   supportInstalled>>

\* 180: raise ValueError("Teardown of ... failed")
run_test_l180 ==
    /\ Running("run_test", "l180")
    /\ exc' = TRUE
    /\ retval' = NoValue
    /\ UNCHANGED <<config, timing, history, stats, bad_news, stack, driver,
                   supportInstalled>>

\* 209: return did_run
run_test_l209 ==
    /\ Running("run_test", "l209")
    /\ stack' = Rest
    /\ retval' = Returned("run_test", Top.did_run)
    /\ UNCHANGED <<config, timing, history, stats, bad_news, exc, driver,
                   supportInstalled>>

\* ------------------------------------------------ run_loop (286-318)
\* 289, 298, 308, 318: testcount when the loop is entered
RunLoopFrame(iterations) ==
    [Frame0 EXCEPT !.fn = "run_loop", !.n = iterations,
                   !.testcount = IF strategy = "Boot" THEN 0 ELSE 1,
                   !.pc = CASE strategy = "AllOnce" -> "l290"
                            [] strategy = "RandomTests" -> "l299"
                            [] strategy = "Sequence" -> "l309"
                            [] strategy = "Boot" -> "l318"]

ReturnFromRunLoop ==
    /\ stack' = Rest
    /\ retval' = Returned("run_loop", FALSE)

\* as AllOnceMore, but stopping at Iterations as the other strategies do
AllOnceMore_counted(i, testcount, iterations) ==
    i < Len(tests) /\ testcount <= iterations

\* 290: "for test in self.tests" has another test to give
AllOnceMore(i, testcount, iterations) == i < Len(tests)

\* AllOnce.run_loop, 290-291
AllOnce_l290 ==
    /\ Running("run_loop", "l290")
    /\ IF AllOnceMore(Top.i, Top.testcount, Top.n)
       THEN /\ stack' = Call([Top EXCEPT !.pc = "l292"],
                             RunTestFrame(tests[Top.i + 1], Top.testcount))
            /\ retval' = NoValue
       ELSE ReturnFromRunLoop
    /\ UNCHANGED <<config, timing, history, stats, bad_news, exc, driver,
                   supportInstalled>>

\* AllOnce.run_loop, 292
AllOnce_l292 ==
    /\ Running("run_loop", "l292")
    /\ stack' = Goto([Top EXCEPT !.pc = "l290", !.testcount = @ + 1, !.i = @ + 1])
    /\ retval' = NoValue
    /\ UNCHANGED <<config, timing, history, stats, bad_news, exc, driver,
                   supportInstalled>>

\* as RandomTestsMore, off by one
RandomTestsMore_strict(testcount, iterations) == testcount < iterations

\* 299: while testcount <= Iterations
RandomTestsMore(testcount, iterations) == testcount <= iterations

\* RandomTests.run_loop, 299-301
RandomTests_l299 ==
    /\ Running("run_loop", "l299")
    /\ IF RandomTestsMore(Top.testcount, Top.n)
       THEN /\ \E choice \in 1..Len(tests) :
                 stack' = Call([Top EXCEPT !.pc = "l302"],
                               RunTestFrame(tests[choice], Top.testcount))
            /\ retval' = NoValue
       ELSE ReturnFromRunLoop
    /\ UNCHANGED <<config, timing, history, stats, bad_news, exc, driver,
                   supportInstalled>>

\* RandomTests.run_loop, 302
RandomTests_l302 ==
    /\ Running("run_loop", "l302")
    /\ stack' = Goto([Top EXCEPT !.pc = "l299", !.testcount = @ + 1])
    /\ retval' = NoValue
    /\ UNCHANGED <<config, timing, history, stats, bad_news, exc, driver,
                   supportInstalled>>

\* Sequence.run_loop, 309: while testcount <= Iterations
Sequence_l309 ==
    /\ Running("run_loop", "l309")
    /\ IF Top.testcount <= Top.n
       THEN /\ stack' = Goto([Top EXCEPT !.pc = "l310", !.i = 0])
            /\ retval' = NoValue
       ELSE ReturnFromRunLoop
    /\ UNCHANGED <<config, timing, history, stats, bad_news, exc, driver,
                   supportInstalled>>

\* Sequence.run_loop, 310-311: for test in self.tests
Sequence_l310 ==
    /\ Running("run_loop", "l310")
    /\ IF Top.i < Len(tests)
       THEN stack' = Call([Top EXCEPT !.pc = "l312"],
                          RunTestFrame(tests[Top.i + 1], Top.testcount))
       ELSE stack' = Goto([Top EXCEPT !.pc = "l309"])
    /\ retval' = NoValue
    /\ UNCHANGED <<config, timing, history, stats, bad_news, exc, driver,
                   supportInstalled>>

\* Sequence.run_loop, 312
Sequence_l312 ==
    /\ Running("run_loop", "l312")
    /\ stack' = Goto([Top EXCEPT !.pc = "l310", !.testcount = @ + 1, !.i = @ + 1])
    /\ retval' = NoValue
    /\ UNCHANGED <<config, timing, history, stats, bad_news, exc, driver,
                   supportInstalled>>

\* Boot.run_loop, 318
Boot_l318 ==
    /\ Running("run_loop", "l318")
    /\ ReturnFromRunLoop
    /\ UNCHANGED <<config, timing, history, stats, bad_news, exc, driver,
                   supportInstalled>>

\* --------------------------------------------------- Scenario.run (141-148)
RunFrame(iterations) ==
    [Frame0 EXCEPT !.fn = "run", !.pc = "l142", !.n = iterations]

\* 142-144
run_l142 ==
    /\ Running("run", "l142")
    /\ profiler' = [profiler EXCEPT !.start = @ + 1]
    /\ stack' = Call([Top EXCEPT !.pc = "l145"], RunLoopFrame(Top.n))
    /\ retval' = NoValue
    /\ UNCHANGED <<config, timing, stats, bad_news, exc, driver, csetup,
                   cteardown, runs, nTeardown, nSummarize, nNoisy,
                   supportInstalled>>

\* 145
run_l145 ==
    /\ Running("run", "l145")
    /\ profiler' = [profiler EXCEPT !.stop = @ + 1]
    /\ stack' = Rest
    /\ retval' = Returned("run", FALSE)
    /\ UNCHANGED <<config, timing, stats, bad_news, exc, driver, csetup, cteardown,
                   runs, nTeardown, nSummarize, nNoisy,
                   supportInstalled>>

\* A ValueError leaves the innermost frame.  Only run() has a handler
\* (146-148): it stops the profiler and raises again.
\* as ExceptHandler, with no handler in run()
ExceptHandler_none(fn, prof) == prof

\* 146-147: what the frame the error leaves does to the profiler
ExceptHandler(fn, prof) ==
    IF fn = "run" THEN [prof EXCEPT !.stop = @ + 1] ELSE prof

Propagate ==
    /\ exc
    /\ Len(stack) > 0
    /\ profiler' = ExceptHandler(Top.fn, profiler)
    /\ stack' = Rest
    /\ driver' = IF Len(stack) = 1 THEN "raised" ELSE driver
    /\ retval' = NoValue
    /\ UNCHANGED <<config, timing, stats, bad_news, exc, csetup, cteardown,
                   runs, nTeardown, nSummarize, nNoisy,
                   supportInstalled>>

\* ------------------------------------------------------------ the driver
\* setup(); if it returned True, run(Iterations), teardown(), summarize()
Idle(at) == ~exc /\ stack = <<>> /\ driver = at

Driver_setup ==
    /\ Idle("init")
    /\ stack' = <<SetupFrame>>
    /\ driver' = "setup"
    /\ retval' = NoValue
    /\ UNCHANGED <<config, timing, history, stats, bad_news, exc, supportInstalled>>

Driver_run ==
    /\ Idle("setup")
    /\ IF retval.val
       THEN /\ stack' = <<RunFrame(Iterations)>>
            /\ driver' = "run"
       ELSE /\ stack' = <<>>
            /\ driver' = "done"
    /\ retval' = NoValue
    /\ UNCHANGED <<config, timing, history, stats, bad_news, exc, supportInstalled>>

Driver_teardown ==
    /\ Idle("run")
    /\ stack' = <<TeardownFrame(None)>>
    /\ driver' = "teardown"
    /\ retval' = NoValue
    /\ UNCHANGED <<config, timing, history, stats, bad_news, exc, supportInstalled>>

Driver_summarize ==
    /\ Idle("teardown")
    /\ nSummarize' = nSummarize + 1
    /\ driver' = "done"
    /\ retval' = NoValue
    /\ UNCHANGED <<config, timing, stats, bad_news, stack, exc, csetup,
                   cteardown, runs, nTeardown, nNoisy, profiler,
                   supportInstalled>>

Next ==
    \/ Driver_setup \/ Driver_run \/ Driver_teardown \/ Driver_summarize
    \/ setup_l92 \/ setup_l94 \/ setup_l97 \/ setup_l107 \/ setup_l111
    \/ setup_l113 \/ setup_l117
    \/ teardown_l123 \/ teardown_l128 \/ teardown_l133
    \/ audit_l238 \/ audit_l279
    \/ run_l142 \/ run_l145
    \/ AllOnce_l290 \/ AllOnce_l292
    \/ RandomTests_l299 \/ RandomTests_l302
    \/ Sequence_l309 \/ Sequence_l310 \/ Sequence_l312
    \/ Boot_l318
    \/ run_test_l154 \/ run_test_l180 \/ run_test_l209
    \/ Propagate

Spec == Init /\ [][Next]_vars

\* ================================================================ claims
Desc(n) == [k \in 1..(n + 1) |-> n + 1 - k]     \* <<n, n-1, ..., 0>>
Asc(n) == [k \in 1..n |-> k - 1]                \* <<0, 1, ..., n-1>>
Frames(f) == {k \in 1..Len(stack) : stack[k].fn = f}
Count(seq, x) == Cardinality({k \in 1..Len(seq) : seq[k] = x})
\* run_loop has returned to run() without raising
LoopReturned == Running("run", "l145")
Skipped == <<"setup", "can_run_now", "skipped", "teardown">>

\* C1: when setup() is about to return False because component j was the
\* first whose setup() returned false, setup() was called on components
\* 0..j only and teardown() on exactly j-1, ..., 0, in that order.
C1_RollbackIsPrefix ==
    Running("setup", "l113") =>
        /\ csetup = Asc(Top.j + 1)
        /\ cteardown = Desc(Top.j - 1)

\* C2: once the loop of teardown(n) is over, the components it tore down
\* are n, n-1, ..., 0 (n = 0 included), and len-1, ..., 0 only when n was
\* omitted.
C2_TeardownRange ==
    \A k \in Frames("teardown") :
        stack[k].pc # "l123" /\ stack[k].j < 0 =>
            stack[k].torn = IF stack[k].n = None
                            THEN Desc(components - 1) ELSE Desc(stack[k].n)

\* C3: in one Scenario run no component has setup() called twice and no
\* component has teardown() called twice.
C3_AtMostOnce ==
    \A c \in 0..(components - 1) :
        Count(csetup, c) <= 1 /\ Count(cteardown, c) <= 1

\* C4: a run_test call in which the test was skipped and test.teardown
\* returned true changes neither "success" nor "failure" and returns False.
C4_SkipCountsNothing ==
    \A k \in Frames("run_test") :
        stack[k].pc = "l209" /\ stack[k].calls = Skipped /\ stack[k].teardownOk =>
            /\ stats["success"] = stack[k].success0
            /\ stats["failure"] = stack[k].failure0
            /\ ~stack[k].did_run

\* C5: when Sequence.run_loop returns, run_test was invoked exactly
\* Iterations times, invocation i (from 0) on test i mod L.
C5_SequenceCount ==
    strategy = "Sequence" /\ LoopReturned =>
        /\ Len(runs) = Iterations
        /\ \A i \in 1..Len(runs) :
             runs[i] = <<tests[((i - 1) % Len(tests)) + 1], i>>

\* C6: when the fatal error leaves an audit() call that hit the runaway
\* bound, summarize() has been called and Scenario.teardown() has been
\* invoked exactly once since that call hit the bound.
C6_OneTeardownBeforeRaise ==
    exc /\ Len(stack) > 0 /\ Top.fn = "audit" /\ Top.runaway =>
        /\ nSummarize > Top.summarize0
        /\ nTeardown = Top.teardown0 + 1

\* C7 as claimed: when the fatal test-teardown error is about to leave
\* run_test, a Scenario teardown has been run since the call began and
\* every component is torn down.
C7_TeardownBeforeRaise ==
    exc /\ Len(stack) > 0 /\ Top.fn = "run_test" /\ Top.pc = "l180" =>
        /\ nTeardown > Top.teardown0
        /\ \A c \in 0..(components - 1) : Count(cteardown, c) >= 1

\* C7 as amended: when test.teardown returned false and the policy is
\* disabled, run_test goes to the raise at line 180 and nowhere else, and
\* until the error has left run_test no Scenario teardown has been invoked
\* and no component has been torn down.
C7_RaisesWithoutTeardown ==
    \A k \in Frames("run_test") :
        stack[k].pc # "l154" /\ ~stack[k].teardownOk /\ ~continueOnError =>
            /\ k = Len(stack)
            /\ stack[k].pc = "l180"
            /\ nTeardown = stack[k].teardown0
            /\ cteardown = <<>>

\* C7, the case: the fatal error of line 180 is leaving run_test, inside run()
C7_Witness ==
    exc /\ Len(stack) > 0 /\ Top.fn = "run_test" /\ Top.pc = "l180"
        /\ ~Top.teardownOk /\ ~continueOnError /\ profiler.start = 1

\* C8: under AllOnce the i-th run_test invocation runs the i-th registered
\* test with sequence number i, and when run_loop returns there have been
\* exactly N invocations, whatever Iterations is.
C8_AllOnceRunsEachOnce ==
    strategy = "AllOnce" =>
        /\ Len(runs) <= Len(tests)
        /\ \A i \in 1..Len(runs) : runs[i] = <<tests[i], i>>
        /\ LoopReturned => Len(runs) = Len(tests)

\* C8, the case: run_loop returned with Iterations = 0, every test run once,
\* one of them failing
C8_Witness ==
    /\ strategy = "AllOnce" /\ LoopReturned
    /\ Iterations = 0 /\ Len(tests) = MaxTests /\ Len(runs) = MaxTests
    /\ stats["failure"] >= 1

\* C9: under RandomTests every invocation runs a registered test with the
\* next sequence number, and when run_loop returns there have been exactly
\* Iterations invocations.
C9_RandomTestsCount ==
    strategy = "RandomTests" =>
        /\ Len(runs) <= Iterations
        /\ \A i \in 1..Len(runs) :
             /\ \E t \in 1..Len(tests) : runs[i][1] = tests[t]
             /\ runs[i][2] = i
        /\ LoopReturned => Len(runs) = Iterations

\* C9, the case: run_loop returned after Iterations draws, the same test
\* drawn twice, with a failure and a success among them
C9_Witness ==
    /\ strategy = "RandomTests" /\ LoopReturned
    /\ Iterations = MaxIter /\ Len(runs) = MaxIter /\ Len(tests) >= 2
    /\ runs[1][1] = runs[2][1]
    /\ stats["failure"] >= 1 /\ stats["success"] >= 1

C11_TeardownAlways ==
    /\ \A k \in Frames("run_test") :
         stack[k].pc # "l154" =>
            /\ Count(stack[k].calls, "teardown") = 1
            /\ stack[k].calls[Len(stack[k].calls)] = "teardown"
            /\ stack[k].calls[1] = "setup"
            /\ ~stack[k].teardownOk /\ continueOnError =>
                 /\ ~exc
                 /\ stack[k].pc = "l209"
                 /\ k < Len(stack) =>
                      /\ stack[k + 1].fn = "audit"
                      /\ stack[k + 1].local_ignore = errors_to_ignore(stack[k].test)
                 /\ stats["failure"] = stack[k].failure0 + 1
                 /\ stats["success"] = stack[k].success0
                 /\ stack[k].did_run
    /\ retval.fn = "run_test" /\ ~retval.frame.teardownOk =>
         /\ continueOnError
         /\ retval.val = TRUE
         /\ stats["failure"] = retval.frame.failure0 + 1
         /\ stats["success"] = retval.frame.success0

\* C11, the case: a run_test call returns in which both test.setup and
\* test.teardown returned false, after another call that failed
C11_Witness ==
    /\ retval.fn = "run_test"
    /\ ~retval.frame.teardownOk /\ ~retval.frame.outcome.setup
    /\ continueOnError
    /\ retval.frame.failure0 = 1 /\ stats["failure"] = 2

\* --------------------------------------------------- the audit, in detail
\* Scenarios of one component and one test under every strategy, with zero
\* to two registered audits and a log that can hand an audit() call up to
\* two runs of lines.
InitAudit ==
    /\ strategy \in Strategies
    /\ components = 1
    /\ tests = <<1>>
    /\ Iterations = 1
    /\ faulty = {}
    /\ audits \in 0..2
    /\ ignores = IgnoreLists
    /\ feeds = Feeds2
    /\ clock = {[starttime |-> 0, timer |-> 0, stoptime |-> 1]}
    /\ Start

SpecAudit == InitAudit /\ [][Next]_vars

Range(seq) == {seq[k] : k \in DOMAIN seq}

\* some pattern of the four lists of lines 240-246 matches the line
Ignored(line, rv) ==
    \E pattern \in {"CTS:"} \cup Range(rv.local_ignore)
                   \cup Range(rv.errorstoignore)
                   \cup Range(rv.instance_errorstoignore) :
        Search(pattern, line)

\* the lines of a feed that no pattern matches
RECURSIVE Unignored(_, _)
Unignored(feed, rv) ==
    IF feed = <<>> THEN 0
    ELSE (IF Ignored(Head(feed).line, rv) THEN 0 ELSE Head(feed).count)
         + Unignored(Tail(feed), rv)

\* those of them the loop of line 257 gets to
UnignoredDrained(rv) ==
    IF Unignored(rv.feed, rv) < RunawayBound
    THEN Unignored(rv.feed, rv) ELSE RunawayBound

\* C12 (SpecAudit): an audit() call that returns has raised stats["BadNews"]
\* by exactly the number of lines it drained that no pattern of "CTS:", the
\* local list, the global list and the instance list matches; a feed of
\* matched lines only leaves the counter alone, and so does a feed of "CTS:"
\* lines whatever the three lists hold.
C12_BadNewsCountsUnignored ==
    retval.fn = "audit" =>
        /\ stats["BadNews"] = retval.BadNews0 + UnignoredDrained(retval)
        /\ (\A k \in DOMAIN retval.feed : Ignored(retval.feed[k].line, retval))
              => stats["BadNews"] = retval.BadNews0
        /\ (\A k \in DOMAIN retval.feed : retval.feed[k].line = "CTS: starting")
              => stats["BadNews"] = retval.BadNews0

\* C12 witness: an audit went through a run of lines matched by the instance
\* list only and then one unmatched line, and counted one
C12_Witness ==
    /\ retval.fn = "audit"
    /\ retval.feed = <<[line |-> "noise", count |-> RunawayBound],
                       [line |-> "ERROR: disk full", count |-> 1]>>
    /\ retval.local_ignore = <<>> /\ retval.errorstoignore = <<>>
    /\ retval.instance_errorstoignore = <<"noise">>
    /\ stats["BadNews"] = retval.BadNews0 + 1

C14_ProfilerOnce ==
    /\ profiler.start \in {0, 1} /\ profiler.stop <= profiler.start
    /\ \A k \in Frames("run") :
          /\ k = 1
          /\ stack[k].pc = "l142" => profiler.start = 0
          /\ stack[k].pc = "l145" => profiler = [start |-> 1, stop |-> 0]
    /\ Frames("run_loop") # {} => profiler = [start |-> 1, stop |-> 0]
    /\ profiler.start = 1 /\ Frames("run") = {} => profiler.stop = 1
    /\ retval.fn = "run" => ~exc /\ profiler = [start |-> 1, stop |-> 1]
    /\ exc /\ stack = <<>> => driver = "raised"
    /\ driver = "raised" => exc

\* C14 witness: the fatal error of a test teardown has left run() and
\* reached the caller, the profiler stopped once
C14_Witness ==
    /\ exc /\ stack = <<>> /\ driver = "raised"
    /\ Len(runs) = 1 /\ nTeardown = 0
    /\ profiler = [start |-> 1, stop |-> 1]

\* the components a teardown(n_components) call is asked to tear down
Requested(n_components) ==
    IF n_components = None THEN 0..(components - 1) ELSE 0..n_components

\* C15: whichever components fail their teardown(), a Scenario.teardown()
\* call tears down one after the other in descending order, has been through
\* every component it was asked for down to the first by the time the loop is
\* over, and then runs the audit; the call is not left before that, and when
\* it is left support is uninstalled.
C15_FailureDoesNotStopUnwind ==
    /\ \A k \in Frames("teardown") :
          /\ \A i \in 1..(Len(stack[k].torn) - 1) :
                stack[k].torn[i + 1] = stack[k].torn[i] - 1
          /\ stack[k].pc = "l133" =>
                /\ Requested(stack[k].n) \subseteq Range(stack[k].torn)
                /\ stack[k].torn[Len(stack[k].torn)] = 0
          /\ stack[k].pc = "l128" => (k = Len(stack) /\ ~exc)
          /\ exc /\ k = Len(stack) =>
                stack[k].pc = "l133" /\ ~supportInstalled
    /\ retval.fn = "teardown" =>
          /\ ~supportInstalled
          /\ ~exc
          /\ Requested(retval.frame.n) \subseteq Range(retval.frame.torn)

\* C15 witness: a teardown() of two components that both failed has been
\* through both, second first, and returned
C15_Witness ==
    /\ retval.fn = "teardown"
    /\ components = 2 /\ faulty = {0, 1}
    /\ retval.frame.torn = <<1, 0>>
    /\ ~supportInstalled

\* ------------------------------------------------- the timing, in detail
\* Scenarios of one component and one test under every strategy, where
\* Iterations lets a strategy run the test twice and the clock gives every
\* reading up to MaxTime.
InitTiming ==
    /\ strategy \in Strategies
    /\ components = 1
    /\ tests = <<1>>
    /\ Iterations = 2
    /\ faulty = {}
    /\ audits = 0
    /\ ignores = {<<>>}
    /\ feeds = {<<>>, <<[line |-> "ERROR: disk full", count |-> RunawayBound]>>}
    /\ clock = Clock(MaxTime)
    /\ Start

SpecTiming == InitTiming /\ [][Next]_vars

RECURSIVE Sum(_)
Sum(seq) == IF seq = <<>> THEN 0 ELSE Head(seq) + Sum(Tail(seq))
Durations(t) == [k \in DOMAIN timings[t] |-> test_time(timings[t][k])]
Spans(t) == [k \in DOMAIN timings[t] |-> elapsed_time(timings[t][k])]

\* C16 (SpecTiming): a test whose stats began without "min_time" has, after
\* its run_test calls that got past the test's teardown, min_time and
\* max_time equal to the least and the greatest of their test-only durations
\* and elapsed_time equal to the sum of their spans, and min_time <= max_time,
\* whatever the outcome of each call; before the first such call it has none
\* of the three.
C16_TimingStats ==
    \A t \in DOMAIN tests :
        IF timings[t] = <<>>
        THEN teststats[t] = NoStats
        ELSE /\ DOMAIN teststats[t] = {"elapsed_time", "min_time", "max_time"}
             /\ teststats[t]["min_time"] \in Range(Durations(t))
             /\ \A d \in Range(Durations(t)) :
                   teststats[t]["min_time"] <= d /\ d <= teststats[t]["max_time"]
             /\ teststats[t]["max_time"] \in Range(Durations(t))
             /\ teststats[t]["elapsed_time"] = Sum(Spans(t))
             /\ teststats[t]["min_time"] <= teststats[t]["max_time"]

\* C16 witness: the test ran twice, a call counted as a success of duration
\* 1 in a span of 2 and then a call whose body failed, of duration 2 in a
\* span of 2
C16_Witness ==
    /\ retval.fn = "run_test" /\ ~retval.frame.outcome.body
    /\ Len(timings[1]) = 2
    /\ test_time(timings[1][1]) = 1 /\ elapsed_time(timings[1][1]) = 2
    /\ test_time(timings[1][2]) = 2
    /\ teststats[1] = [elapsed_time |-> 4, min_time |-> 1, max_time |-> 2]
    /\ stats["success"] = 1 /\ stats["failure"] = 1

\* ------------------------------------------- the LogWatcher that never ends
\* Scenarios of one component and one test under every strategy, with a log
\* that can hand an audit() call one run of lines, ending or not.
InitEndless ==
    /\ strategy \in Strategies
    /\ components = 1
    /\ tests = <<1>>
    /\ Iterations = 1
    /\ faulty = {}
    /\ audits = 0
    /\ ignores = IgnoreLists
    /\ feeds = FeedsEndless
    /\ clock = {[starttime |-> 0, timer |-> 0, stoptime |-> 1]}
    /\ Start

SpecEndless == InitEndless /\ [][Next]_vars

\* C17 (SpecEndless): an audit() call is not held in the loop of line 257:
\* whatever the LogWatcher returns, the bound of the loop ends it.  Violated:
\* the bound counts only the lines that no pattern matches, and a call given
\* matched lines without end stays in the loop.
C17_DrainIsCutOff ==
    \A k \in Frames("audit") : stack[k].pc # "l257"

\* C18: with the continue policy disabled, the audit() that teardown() runs
\* for an audit() call on the runaway path does not get on the runaway path
\* itself: at most one audit() call in progress is past the bound, so the one
\* teardown() of line 278 ends and line 279 raises.  Violated: the audit of
\* line 132 reads the same LogWatcher, and with 1000 more unignored lines in
\* it starts the next teardown().
C18_RunawayNotReentered ==
    Cardinality({k \in Frames("audit") : stack[k].runaway}) <= 1

\* the run_test calls that got to the bookkeeping of lines 184-206
Bookkept == Sum([t \in DOMAIN timings |-> Len(timings[t])])

\* C19: "success" and "failure" together count the run_test calls that got
\* to the bookkeeping, each such call having raised exactly one of the two by
\* one; and no step lowers a counter of stats or drops one of its keys.
C19_StatsCount ==
    /\ [](/\ stats["success"] + stats["failure"] = Bookkept
          /\ \A k \in Frames("run_test") :
                stack[k].pc = "l209" =>
                   \/ /\ stats["success"] = stack[k].success0 + 1
                      /\ stats["failure"] = stack[k].failure0
                   \/ /\ stats["success"] = stack[k].success0
                      /\ stats["failure"] = stack[k].failure0 + 1)
    /\ [][\A key \in DOMAIN stats :
             key \in DOMAIN stats' /\ stats'[key] >= stats[key]]_vars

\* C19 witness: two run_test calls have returned, one counted as a success
\* and one as a failure, with bad news counted too
C19_Witness ==
    /\ retval.fn = "run_test"
    /\ stats["success"] = 1 /\ stats["failure"] = 1 /\ stats["BadNews"] > 0
    /\ Bookkept = 2

\* C20: every component whose teardown() has been called in the run had its
\* setup() called before.  Violated: teardown(0) after the first component
\* failed its setup, and the teardown() of a runaway audit inside the setup
\* loop, both start from the last component of the list.
C20_TornDownOnlyIfSetUp ==
    Range(cteardown) \subseteq Range(csetup)
====
